---- MODULE Spec2Model ----
(***************************************************************************)
(* A model of makepass (src/src/makepass/makepass.py): the sampler of      *)
(* distinct words, the composition of candidates, the length filter, the   *)
(* entropy estimate, the parser password_parts and the entry point main.   *)
(*                                                                         *)
(* Strings are sequences of one-character strings.  An entropy of e bits   *)
(* is carried as the integer (or ratio of integers) 2^e, so that a sum of  *)
(* log2 terms is a product; a log2 of a number <= 0 is the error           *)
(* MathDomainError.                                                        *)
(***************************************************************************)
EXTENDS Integers, Sequences, FiniteSets, TLC

VARIABLES
    \* main
    pc,            \* position of main
    args,          \* the arguments main was called with
    min_length,    \* main's local min_length (None, or an integer)
    max_length,    \* main's local max_length (None, Inf, or an integer)
    min_word,      \* main's local min_word
    special_set,   \* main's local special_set
    sample_size,   \* the islice bound of line 318
    generated,     \* candidates the islice of line 318 has let through
    password,      \* the result of next(passwords), or None
    passed,        \* candidates counted by count_iterator (line 329)
    success_size,  \* line 329, or None
    entropy,       \* line 331, as [num, den] with 2^entropy = num / den
    hist,          \* history: the length of every candidate, in order
    picked,        \* history: the index in hist of the returned password
    stdout,        \* what was printed on standard output
    stderr,        \* the kinds of the lines written to standard error
    ret,           \* the message main returned, "" if none
    exc,           \* the exception that left main or the generator, "" if none
    \* gen_alpha_passwords / non_repeating
    word_set,      \* the tuple of words to draw from
    word_count,    \* words per stem
    seen,          \* non_repeating's set of the current stem
    stem,          \* words islice has taken for the current stem
    yielded,       \* gen_alpha_passwords alone: the set of stems yielded
    \* password_parts
    pp_words, pp_digit, pp_char,   \* the parts a password is composed of
    pp_input,                      \* the string handed to password_parts
    pp_out,                        \* its result, or ValueError
    \* wordset_entropy
    we_n, we_k, we_out

mainVars == <<pc, args, min_length, max_length, min_word, special_set,
              sample_size, generated, password, passed, success_size,
              entropy, hist, picked, stdout, stderr, ret, exc>>
genVars == <<word_set, word_count, seen, stem>>
aloneVars == <<yielded>>
ppVars == <<pp_words, pp_digit, pp_char, pp_input, pp_out>>
weVars == <<we_n, we_k, we_out>>
vars == <<mainVars, genVars, aloneVars, ppVars, weVars>>

----------------------------------------------------------------------------
(* Bounds of the model *)

MaxWordCount == 2       \* word_count ranges over 1..MaxWordCount
MaxSample == 3          \* sample_size ranges over 0..MaxSample
MaxLength == 4          \* min_length, max_length: None or 0..MaxLength
MaxParts == 2           \* words of a password composed for password_parts
MaxRawLen == 4          \* length of an arbitrary string given to password_parts
MaxSetSize == 9         \* word_set_size given to wordset_entropy
MaxCount == 6           \* word_count given to wordset_entropy
MaxWordLen == 3         \* min_word, max_word range up to MaxWordLen

(* Values of Python *)

None == [tag |-> "None"]
Inf == [tag |-> "inf"]                  \* float('inf')
IntV(n) == [tag |-> "int", v |-> n]

\* uncaught exceptions
MathDomainError == "ValueError: math domain error"
TypeError == "TypeError"
IndexError == "IndexError"

----------------------------------------------------------------------------
(* Characters and strings *)

UpperChars == {"A", "B", "C"}
LowerChars == {"a", "b"}
DigitChars == {"0", "1"}
Newline == "\n"
SpaceChars == {" ", Newline}

IsUpper(c) == c \in UpperChars
IsLower(c) == c \in LowerChars
IsDigit(c) == c \in DigitChars
IsSpace(c) == c \in SpaceChars
IsAlnum(c) == IsUpper(c) \/ IsLower(c) \/ IsDigit(c)

RECURSIVE Join(_)
Join(parts) ==
    IF parts = <<>> THEN <<>> ELSE Head(parts) \o Join(Tail(parts))

SeqToSet(s) == {s[i] : i \in 1..Len(s)}

----------------------------------------------------------------------------
(* Python's comparisons and truth values on None, integers and float('inf') *)

Truthy(x) == x # None /\ x # IntV(0)

Max(a, b) == IF a >= b THEN a ELSE b

\* a > b, for integers and float('inf'); with None it is a TypeError
Comparable(a, b) == a # None /\ b # None

Gt(a, b) ==
    IF a = Inf THEN b # Inf
    ELSE IF b = Inf THEN FALSE
    ELSE a.v > b.v

\* a <= b, for integers and float('inf')
Le(a, b) ==
    IF b = Inf THEN TRUE
    ELSE IF a = Inf THEN FALSE
    ELSE a.v <= b.v

RECURSIVE Pow(_, _)
Pow(b, e) == IF e = 0 THEN 1 ELSE b * Pow(b, e - 1)

----------------------------------------------------------------------------
(* The word list and the word set *)

\* data/words.txt, ranked by frequency
BaseWords == << <<"A">>, <<"B", "a">>, <<"C", "b">> >>

\* lines 22-31: the first top_words words of the file
base_word_set(top_words) ==
    SubSeq(BaseWords, 1, IF top_words < Len(BaseWords) THEN top_words
                         ELSE Len(BaseWords))

\* mutant: the upper bound is not tested
InBounds_no_max(word, min_len, max_len) == Le(min_len, IntV(Len(word)))

\* mutant: the lower bound is exclusive
InBounds_above_min(word, min_len, max_len) ==
    Gt(IntV(Len(word)), min_len) /\ Le(IntV(Len(word)), max_len)

\* line 40: the test of constrain_word_length
InBounds(word, min_len, max_len) ==
    Le(min_len, IntV(Len(word))) /\ Le(IntV(Len(word)), max_len)

\* lines 34-41
constrain_word_length(words, min_len, max_len) ==
    SelectSeq(words, LAMBDA word : InBounds(word, min_len, max_len))

----------------------------------------------------------------------------
(* non_repeating, islice and gen_alpha_passwords *)

\* mutant: the membership test is lost, every draw is yielded
non_repeating_always(seenSet, thing) == TRUE

\* lines 58-60: non_repeating yields thing iff it is not in seen
non_repeating(seenSet, thing) == thing \notin seenSet

\* mutant: islice takes one word too many
islice_wants_one_more(taken, count) == Len(taken) <= count

\* line 73: islice(..., word_count) asks for another word
islice_wants(taken, count) == Len(taken) < count

\* One random_choice from the shared stream `words`, handed to the
\* non_repeating generator of the current stem (lines 48, 55-60, 73).
Draw(w) ==
    /\ islice_wants(stem, word_count)
    /\ IF non_repeating(seen, w)
       THEN /\ seen' = seen \cup {w}
            /\ stem' = Append(stem, w)
       ELSE UNCHANGED <<seen, stem>>
    /\ UNCHANGED <<word_set, word_count>>

\* line 73: the stem is complete; the next stem gets a new non_repeating
StemDone == ~islice_wants(stem, word_count)

----------------------------------------------------------------------------
(* base_passwords *)

\* line 82: random_stream('0123456789'), here over the digits of the model
NumeralChoices(append_numeral) ==
    IF append_numeral THEN {<<d>> : d \in DigitChars} ELSE {<<>>}

\* line 84: random_stream(special_chars), if special_chars is not empty
SpecialChoices(special_chars) ==
    IF Len(special_chars) # 0 THEN {<<special_chars[i]>> : i \in 1..Len(special_chars)}
    ELSE {<<>>}

\* line 86: ''.join of one tuple of zip(*gens); line 68, 73: ''.join of the words
base_password(words, numeral, char) == Join(words) \o numeral \o char

----------------------------------------------------------------------------
(* The entropy estimate; an entropy e is carried as 2^e *)

\* lines 115-122: sum of log2(word_set_size - n) for n in range(word_count);
\* log2 raises a ValueError on a number <= 0
wordset_entropy_raises(word_set_size, count) ==
    \E n \in 0..(count - 1) : word_set_size - n <= 0

\* mutant: range(1, word_count + 1) in place of range(word_count)
RECURSIVE wordset_entropy_from_one(_, _)
wordset_entropy_from_one(word_set_size, count) ==
    IF count <= 0 THEN 1
    ELSE wordset_entropy_from_one(word_set_size, count - 1) * (word_set_size - count)

\* mutant: words counted as drawn with replacement, word_count * log2(N)
wordset_entropy_with_replacement(word_set_size, count) == Pow(word_set_size, count)

RECURSIVE wordset_entropy(_, _)
wordset_entropy(word_set_size, count) ==
    IF count <= 0 THEN 1
    ELSE wordset_entropy(word_set_size, count - 1) * (word_set_size - (count - 1))

\* lines 125-129
numeral_entropy(append_numeral) == IF append_numeral THEN 10 ELSE 1

\* lines 132-136
special_char_entropy(special_chars) ==
    IF Len(special_chars) # 0 THEN Len(special_chars) ELSE 1

\* lines 139-158: log2(success_size) - log2(sample_size), as a ratio
sampled_entropy(sample, success) == [num |-> success, den |-> sample]

\* lines 161-178
estimate_entropy(word_set_size, count, append_numeral, special_chars, sample, success) ==
    LET s == sampled_entropy(sample, success)
    IN [num |-> wordset_entropy(word_set_size, count)
                * numeral_entropy(append_numeral)
                * special_char_entropy(special_chars) * s.num,
        den |-> s.den]

----------------------------------------------------------------------------
(* main *)

DefaultMinLength == 24
AlphabetSize == 26

MsgMinWord == "min_word must be less than or equal to max_word"
MsgMinLength == "min_length must be less than or equal to max_length"
MsgTooLong == "Impossible constraints: minumum possible size greater than maximum allowed password length"
MsgTooShort == "Impossible constraints: maximum possible size less than minimum allowed password length"
MsgInvalidSpecial == "Invalid special character {char} in special character set."
MsgExhausted == "Couldn't generate password matching constraints"

\* lines 244-250: <<min_length, max_length>> after the defaults
LengthDefaults(minl, maxl) ==
    IF minl = None /\ maxl = None THEN <<IntV(DefaultMinLength), Inf>>
    ELSE IF Truthy(maxl) /\ ~Truthy(minl) THEN <<maxl, maxl>>
    ELSE IF Truthy(minl) /\ ~Truthy(maxl) THEN <<minl, Inf>>
    ELSE <<minl, maxl>>

\* lines 258-262 and 263-267
PossibleSize(word_len, count, no_append_numeral, append_char) ==
    (word_len * count) + (IF no_append_numeral THEN 0 ELSE 1)
                       + (IF append_char THEN 1 ELSE 0)

\* line 294: re.search(r'[a-zA-Z\d\s]', special_set)
invalid_special_char(chars) ==
    \E i \in 1..Len(chars) : IsAlnum(chars[i]) \/ IsSpace(chars[i])

\* mutant: the returned password is not counted
SuccessSize_without_first(counted) == counted

\* line 329: count_iterator(passwords) + 1
SuccessSize(counted) == counted + 1

\* line 328
Reporting == args.entropy_estimate \/ args.verbose

Return(msg) ==
    /\ ret' = msg
    /\ pc' = "done"

Raise(e) ==
    /\ exc' = e
    /\ pc' = "raised"

\* lines 241-284
CheckArgs ==
    /\ pc = "start"
    /\ UNCHANGED <<args, special_set, sample_size, generated, password, passed,
                   success_size, entropy, hist, picked, stdout, stderr>>
    /\ UNCHANGED <<genVars, aloneVars, ppVars, weVars>>
    /\ IF args.min_word > args.max_word
       THEN Return(MsgMinWord) /\ UNCHANGED <<exc, min_length, max_length, min_word>>
       ELSE
       LET d == LengthDefaults(args.min_length, args.max_length) IN
       IF ~Comparable(d[1], d[2])
       THEN /\ Raise(TypeError)
            /\ min_length' = d[1] /\ max_length' = d[2]
            /\ UNCHANGED <<ret, min_word>>
       ELSE IF Gt(d[1], d[2])
       THEN /\ Return(MsgMinLength)
            /\ min_length' = d[1] /\ max_length' = d[2]
            /\ UNCHANGED <<exc, min_word>>
       ELSE
       LET minl == IntV(Max(1, d[1].v))
           minw == Max(1, args.min_word)
           min_possible_size == PossibleSize(minw, args.word_count,
                                    args.no_append_numeral, args.append_char)
           max_possible_size == PossibleSize(args.max_word, args.word_count,
                                    args.no_append_numeral, args.append_char)
       IN /\ min_length' = minl /\ max_length' = d[2] /\ min_word' = minw
          /\ UNCHANGED exc
          /\ IF Gt(IntV(min_possible_size), d[2]) THEN Return(MsgTooLong)
             ELSE IF Gt(minl, IntV(max_possible_size)) THEN Return(MsgTooShort)
             ELSE pc' = "words" /\ UNCHANGED ret

\* lines 286-315
BuildWordSet ==
    /\ pc = "words"
    /\ LET ws == constrain_word_length(base_word_set(args.top_words),
                                       IntV(min_word), IntV(args.max_word))
           sp == IF args.append_char THEN args.special_set ELSE <<>>
       IN /\ word_set' = ws
          /\ special_set' = sp
          /\ IF invalid_special_char(sp)
             THEN Return(MsgInvalidSpecial) /\ UNCHANGED <<exc, stderr>>
             ELSE IF Len(ws) <= 0
             THEN Raise(MathDomainError) /\ UNCHANGED <<ret, stderr>>     \* log2(0)
             ELSE /\ pc' = "sampling"
                  /\ stderr' = IF Len(ws) > Pow(AlphabetSize, min_word)
                               THEN Append(stderr, "warning") ELSE stderr
                  /\ UNCHANGED <<ret, exc>>
    /\ UNCHANGED <<args, min_length, max_length, min_word, sample_size, generated,
                   password, passed, success_size, entropy, hist, picked, stdout>>
    /\ UNCHANGED <<word_count, seen, stem, aloneVars, ppVars, weVars>>

\* mutant: islice lets one candidate too many through
Sampling_one_more == pc \in {"sampling", "counting"} /\ generated <= sample_size

\* line 318: islice(passwords, sample_size) asks for another candidate
Sampling == pc \in {"sampling", "counting"} /\ generated < sample_size

\* One draw of a word for the stem of the next candidate
DrawWord ==
    /\ Sampling
    /\ \E i \in 1..Len(word_set) : Draw(word_set[i])
    /\ UNCHANGED <<mainVars, aloneVars, ppVars, weVars>>

\* lines 86, 318, 321: the stem is complete; the numeral and the special
\* character are drawn, the candidate is joined, counted by islice and
\* handed to the length filter.  In "sampling" the first candidate that
\* passes is the result of next(passwords) (line 324); in "counting"
\* (count_iterator, line 329) every candidate that passes is counted.
Candidate ==
    /\ Sampling
    /\ StemDone
    /\ \E numeral \in NumeralChoices(~args.no_append_numeral),
          char \in SpecialChoices(special_set) :
          LET cand == base_password(stem, numeral, char) IN
          /\ generated' = generated + 1
          /\ hist' = Append(hist, Len(cand))
          /\ IF InBounds(cand, min_length, max_length)
             THEN IF pc = "sampling"
                  THEN /\ password' = cand
                       /\ picked' = generated + 1
                       /\ pc' = IF Reporting THEN "counting" ELSE "print"
                       /\ UNCHANGED passed
                  ELSE /\ passed' = passed + 1
                       /\ UNCHANGED <<password, picked, pc>>
             ELSE UNCHANGED <<password, picked, pc, passed>>
    /\ seen' = {}
    /\ stem' = <<>>
    /\ UNCHANGED <<args, min_length, max_length, min_word, special_set, sample_size,
                   success_size, entropy, stdout, stderr, ret, exc>>
    /\ UNCHANGED <<word_set, word_count, aloneVars, ppVars, weVars>>

\* lines 323-326: the islice is exhausted before a candidate passed
Exhausted ==
    /\ pc = "sampling"
    /\ generated >= sample_size
    /\ Return(MsgExhausted)
    /\ UNCHANGED <<args, min_length, max_length, min_word, special_set, sample_size,
                   generated, password, passed, success_size, entropy, hist, picked,
                   stdout, stderr, exc>>
    /\ UNCHANGED <<genVars, aloneVars, ppVars, weVars>>

\* lines 328-389: count_iterator has consumed the islice
Estimate ==
    /\ pc = "counting"
    /\ generated >= sample_size
    /\ success_size' = SuccessSize(passed)
    /\ entropy' = estimate_entropy(Len(word_set), word_count, ~args.no_append_numeral,
                                   special_set, sample_size, SuccessSize(passed))
    /\ stderr' = Append(stderr, "entropy")
    /\ pc' = "print"
    /\ UNCHANGED <<args, min_length, max_length, min_word, special_set, sample_size,
                   generated, password, passed, hist, picked, stdout, ret, exc>>
    /\ UNCHANGED <<genVars, aloneVars, ppVars, weVars>>

\* lines 391-394
PrintPassword ==
    /\ pc = "print"
    /\ stderr' = IF args.verbose \/ args.count THEN Append(stderr, "count") ELSE stderr
    /\ stdout' = Append(stdout, password)
    /\ pc' = "done"
    /\ UNCHANGED <<args, min_length, max_length, min_word, special_set, sample_size,
                   generated, password, passed, success_size, entropy, hist, picked,
                   ret, exc>>
    /\ UNCHANGED <<genVars, aloneVars, ppVars, weVars>>

----------------------------------------------------------------------------
(* The runs of main *)

DefaultSpecialSet == <<"!", "?">>      \* stands for "-_()/.,?!;:"

LengthChoices == {None} \cup {IntV(n) : n \in 0..MaxLength}
SpecialSetChoices == {DefaultSpecialSet, <<"!">>, <<"a", "!">>}

\* The arguments of main.  special_set matters only with append_char, and
\* verbose implies all that entropy_estimate does, so the redundant
\* combinations are left out; count only adds a line on standard error.
ArgChoices ==
    {a \in [word_count : 1..MaxWordCount,
            min_length : LengthChoices,
            max_length : LengthChoices,
            append_char : BOOLEAN,
            special_set : SpecialSetChoices,
            no_append_numeral : BOOLEAN,
            min_word : 0..MaxWordLen,
            max_word : 1..MaxWordLen,
            entropy_estimate : BOOLEAN,
            verbose : BOOLEAN,
            count : {FALSE},
            sample_size : 0..MaxSample,
            top_words : {Len(BaseWords)}] :
        /\ (~a.append_char => a.special_set = DefaultSpecialSet)
        /\ (a.verbose => ~a.entropy_estimate)}

AloneIdle == yielded = {}
NoParts == [raised |-> FALSE, word_parts |-> <<>>, number_part |-> <<>>, char_part |-> <<>>]
NoBits == [raised |-> FALSE, bits |-> 0]

PartsIdle ==
    /\ pp_words = <<>> /\ pp_digit = <<>> /\ pp_char = <<>>
    /\ pp_input = <<>> /\ pp_out = NoParts
EntropyIdle == we_n = 0 /\ we_k = 0 /\ we_out = NoBits

Init ==
    /\ args \in ArgChoices
    /\ pc = "start"
    /\ min_length = args.min_length
    /\ max_length = args.max_length
    /\ min_word = args.min_word
    /\ special_set = args.special_set
    /\ sample_size = args.sample_size
    /\ word_count = args.word_count
    /\ generated = 0
    /\ password = <<>>
    /\ passed = 0
    /\ success_size = 0
    /\ entropy = [num |-> 0, den |-> 1]
    /\ hist = <<>>
    /\ picked = 0
    /\ stdout = <<>>
    /\ stderr = <<>>
    /\ ret = ""
    /\ exc = ""
    /\ word_set = <<>>
    /\ seen = {}
    /\ stem = <<>>
    /\ AloneIdle /\ PartsIdle /\ EntropyIdle

Next ==
    \/ CheckArgs
    \/ BuildWordSet
    \/ DrawWord
    \/ Candidate
    \/ Exhausted
    \/ Estimate
    \/ PrintPassword

Spec == Init /\ [][Next]_vars

----------------------------------------------------------------------------
(* Claims on main *)

\* a length within [min_length, max_length] as main holds them after line 255
LenOk(n) ==
    /\ n >= min_length.v
    /\ max_length = Inf \/ n <= max_length.v

\* C1: whatever main prints on standard output has a length L with
\* min_length <= L <= max_length (after the defaults; max_length may be
\* unbounded).
C1_LengthConformance ==
    \A i \in 1..Len(stdout) : LenOk(Len(stdout[i]))

\* C1 witness: a password was printed under a finite max_length after an
\* earlier candidate was filtered out
C1_Witness ==
    /\ Len(stdout) = 1
    /\ max_length # Inf
    /\ picked > 1

\* C3: candidates are evaluated in the order they are generated; the
\* password is the first candidate whose length is in range, every
\* candidate before it was out of range, and it is never replaced later.
C3_FirstSuccess ==
    /\ [](/\ Len(hist) = generated
          /\ picked # 0 =>
                /\ picked \in 1..Len(hist)
                /\ Len(password) = hist[picked]
                /\ LenOk(hist[picked])
                /\ \A j \in 1..(picked - 1) : ~LenOk(hist[j])
          /\ picked = 0 =>
                /\ password = <<>>
                /\ \A j \in 1..Len(hist) : ~LenOk(hist[j])
          /\ stdout # <<>> => picked # 0 /\ stdout = <<password>>)
    /\ [][picked # 0 => picked' = picked /\ password' = password]_vars

\* C3 witness: the second candidate was returned, and more were generated
C3_Witness ==
    /\ pc = "done"
    /\ stdout # <<>>
    /\ picked = 2
    /\ generated > picked

\* C4: at most sample_size candidates are generated; when all sample_size
\* candidates are out of range main returns the error at once, prints
\* nothing and generates no further candidate.
C4_BoundedAttempts ==
    /\ [](/\ generated <= sample_size
          /\ ret = MsgExhausted =>
                /\ pc = "done"
                /\ generated = sample_size
                /\ \A j \in 1..Len(hist) : ~LenOk(hist[j])
                /\ picked = 0
                /\ stdout = <<>>)
    /\ [][(pc = "sampling" /\ generated = sample_size) =>
            /\ ret' = MsgExhausted
            /\ pc' = "done"
            /\ UNCHANGED <<generated, hist, stdout, seen, stem>>]_vars
    /\ [][ret # MsgExhausted]_vars

\* C4 witness: two candidates were generated and main gave up
C4_Witness ==
    /\ ret = MsgExhausted
    /\ generated >= 2

InRangeCount == Cardinality({j \in 1..Len(hist) : LenOk(hist[j])})

\* C6: when main has computed the entropy estimate, sample_size candidates
\* were generated and success_size is the number of them in range, the
\* returned one included; 1 <= success_size <= sample_size, with equality
\* exactly when no candidate was filtered out, that is, when the sampling
\* correction is 0.  With entropy_estimate or verbose, the estimate is
\* computed before the password is printed.
C6_SuccessCount ==
    /\ success_size # 0 =>
          /\ generated = sample_size
          /\ Len(hist) = sample_size
          /\ success_size = InRangeCount
          /\ LenOk(hist[picked])
          /\ 1 <= success_size /\ success_size <= sample_size
          /\ success_size = sample_size <=> \A j \in 1..Len(hist) : LenOk(hist[j])
          /\ entropy.num * sample_size = entropy.den * success_size
                 * wordset_entropy(Len(word_set), word_count)
                 * numeral_entropy(~args.no_append_numeral)
                 * special_char_entropy(special_set)
    /\ (stdout # <<>> /\ (args.entropy_estimate \/ args.verbose)) => success_size # 0

\* C6 witness: of two candidates one was filtered out
C6_Witness ==
    /\ success_size = 1
    /\ sample_size = 2
    /\ pc = "done"

\* the stem of the next candidate can never be completed: every word of
\* the word set has been drawn and islice asks for more
SamplerStuck ==
    /\ Sampling
    /\ ~StemDone
    /\ SeqToSet(word_set) \subseteq seen

\* C10: every run of main ends, and ends either with exactly one password
\* printed and no message returned, or with a message returned and nothing
\* printed; no run ends with an uncaught exception or goes on for ever.
C10_ExactlyOneOutcome ==
    /\ pc # "raised"
    /\ ~SamplerStuck
    /\ pc = "done" =>
          \/ Len(stdout) = 1 /\ ret = ""
          \/ stdout = <<>> /\ ret # ""
    /\ pc # "done" => stdout = <<>> /\ ret = ""

----------------------------------------------------------------------------
(* gen_alpha_passwords on its own: the unbounded sequence of stems *)

MainIdle ==
    /\ args = [word_count |-> word_count]
    /\ min_length = None /\ max_length = None /\ min_word = 0
    /\ special_set = <<>> /\ sample_size = 0 /\ generated = 0
    /\ password = <<>> /\ passed = 0 /\ success_size = 0
    /\ entropy = [num |-> 0, den |-> 1]
    /\ hist = <<>> /\ picked = 0
    /\ stdout = <<>> /\ stderr = <<>> /\ ret = "" /\ exc = ""

GenInit ==
    /\ pc = "stems"
    /\ \E top_words \in 0..Len(BaseWords) : word_set = base_word_set(top_words)
    /\ word_count \in 1..MaxWordCount
    /\ seen = {}
    /\ stem = <<>>
    /\ yielded = {}
    /\ MainIdle /\ PartsIdle /\ EntropyIdle

\* lines 48, 58-60, 73: one draw for the current stem
GenDraw ==
    /\ pc = "stems"
    /\ \E i \in 1..Len(word_set) : Draw(word_set[i])
    /\ UNCHANGED <<mainVars, aloneVars, ppVars, weVars>>

\* line 48: random_choice of an empty sequence raises IndexError
GenRaise ==
    /\ pc = "stems"
    /\ islice_wants(stem, word_count)
    /\ Len(word_set) = 0
    /\ Raise(IndexError)
    /\ UNCHANGED <<args, min_length, max_length, min_word, special_set, sample_size,
                   generated, password, passed, success_size, entropy, hist, picked,
                   stdout, stderr, ret>>
    /\ UNCHANGED <<genVars, aloneVars, ppVars, weVars>>

\* lines 72-73: the stem is yielded; the loop starts a new non_repeating
GenYield ==
    /\ pc = "stems"
    /\ StemDone
    /\ yielded' = yielded \cup {stem}
    /\ seen' = {}
    /\ stem' = <<>>
    /\ UNCHANGED <<word_set, word_count, mainVars, ppVars, weVars>>

GenNext == GenDraw \/ GenRaise \/ GenYield

SpecGen == GenInit /\ [][GenNext]_vars

\* random_choice is uniform over word_set: a word not yet seen cannot be
\* missed for ever, and a complete stem is yielded
SpecGenFair == SpecGen /\ WF_vars(GenDraw) /\ WF_vars(GenYield)

----------------------------------------------------------------------------
(* Claims on gen_alpha_passwords *)

PairwiseDifferent(s) == \A i, j \in 1..Len(s) : i # j => s[i] # s[j]

\* the ordered selections of k pairwise-different words of the word set
Selections(words, k) ==
    {s \in [1..k -> SeqToSet(words)] : PairwiseDifferent(s)}

\* C2: every stem gen_alpha_passwords yields holds word_count words that
\* are pairwise different, whatever the draws were.
C2_Distinctness ==
    \A s \in yielded : Len(s) = word_count /\ PairwiseDifferent(s)

\* C2 witness: two stems were yielded and a word of one is in the other
C2_Witness ==
    /\ word_count >= 2
    /\ \E s, t \in yielded : s # t /\ s[1] = t[2]

C9_NeverYieldsAtOrAboveSize ==
    word_count >= Len(word_set) => yielded = {} /\ ~StemDone

\* C9 amended: with word_count > N no stem is ever yielded and the entropy
\* formula fails; with 1 <= word_count <= N the entropy formula is defined
\* and, under fair random choice, every stem is completed.
C9_NeverYieldsAboveSize ==
    /\ [](word_count > Len(word_set) =>
            yielded = {} /\ wordset_entropy_raises(Len(word_set), word_count))
    /\ [](word_count <= Len(word_set) =>
            ~wordset_entropy_raises(Len(word_set), word_count))
    /\ ((word_count <= Len(word_set)) ~> StemDone)

\* C9 witness: a stem of all N words of the word set was yielded
C9_Witness ==
    /\ word_count = Len(word_set)
    /\ word_count >= 2
    /\ yielded # {}

----------------------------------------------------------------------------
(* password_parts *)

\* [a-z]* from position i: the position after it
RECURSIVE SkipLower(_, _)
SkipLower(s, i) ==
    IF i <= Len(s) /\ IsLower(s[i]) THEN SkipLower(s, i + 1) ELSE i

\* (?:[A-Z][a-z]*)+ from position i, greedy: the position after it (i if
\* there is no word at i).  A shorter match never helps the rest of the
\* pattern, which takes no letter.
RECURSIVE MatchWords(_, _)
MatchWords(s, i) ==
    IF i <= Len(s) /\ IsUpper(s[i])
    THEN LET j == SkipLower(s, i + 1)
         IN IF j <= Len(s) /\ IsUpper(s[j]) THEN MatchWords(s, j) ELSE j
    ELSE i

\* line 96: re.findall(r'[A-Z][a-z]*', group 1)
RECURSIVE FindWords(_, _)
FindWords(s, i) ==
    IF i <= Len(s) /\ IsUpper(s[i])
    THEN LET j == SkipLower(s, i + 1)
         IN <<SubSeq(s, i, j - 1)>> \o FindWords(s, j)
    ELSE <<>>

\* $ of line 94: the end of the string, or just before a newline that ends it
AtDollar(s, i) ==
    \/ i = Len(s) + 1
    \/ i = Len(s) /\ s[i] = Newline

\* lines 92-101
password_parts(s) ==
    LET w == MatchWords(s, 1)                                  \* after group 1
        d == IF w <= Len(s) /\ IsDigit(s[w]) THEN w + 1 ELSE w  \* after group 2
        c == IF d <= Len(s) /\ ~IsAlnum(s[d]) THEN d + 1 ELSE d \* after group 3
    IN IF w > 1 /\ AtDollar(s, c)
       THEN [raised |-> FALSE,
             word_parts |-> FindWords(SubSeq(s, 1, w - 1), 1),
             number_part |-> SubSeq(s, w, d - 1),
             char_part |-> SubSeq(s, d, c - 1)]
       ELSE [raised |-> TRUE, word_parts |-> <<>>,
             number_part |-> <<>>, char_part |-> <<>>]

RawChars == {"A", "a", "0", "!", Newline}

RECURSIVE Strings(_)
Strings(n) ==
    IF n = 0 THEN {<<>>}
    ELSE LET shorter == Strings(n - 1)
         IN shorter \cup {Append(t, c) : t \in {u \in shorter : Len(u) = n - 1},
                                          c \in RawChars}

WordLists == UNION {[1..n -> SeqToSet(BaseWords)] : n \in 1..MaxParts}

\* a password is composed of words, a numeral or none and a special
\* character or none (lines 76-86), or an arbitrary string is given
PartsInit ==
    /\ \/ /\ pc = "compose"
          /\ pp_words \in WordLists
          /\ pp_digit \in NumeralChoices(TRUE) \cup NumeralChoices(FALSE)
          /\ pp_char \in SpecialChoices(DefaultSpecialSet) \cup SpecialChoices(<<>>)
          /\ pp_input = <<>>
       \/ /\ pc = "parse"
          /\ pp_words = <<>> /\ pp_digit = <<>> /\ pp_char = <<>>
          /\ pp_input \in Strings(MaxRawLen)
    /\ pp_out = NoParts
    /\ word_set = BaseWords
    /\ word_count = 0
    /\ seen = {} /\ stem = <<>>
    /\ MainIdle /\ AloneIdle /\ EntropyIdle

\* line 86
PartsCompose ==
    /\ pc = "compose"
    /\ pp_input' = base_password(pp_words, pp_digit, pp_char)
    /\ pc' = "parse"
    /\ UNCHANGED <<pp_words, pp_digit, pp_char, pp_out>>
    /\ UNCHANGED <<args, min_length, max_length, min_word, special_set, sample_size,
                   generated, password, passed, success_size, entropy, hist, picked,
                   stdout, stderr, ret, exc>>
    /\ UNCHANGED <<genVars, aloneVars, weVars>>

\* lines 92-101
PartsParse ==
    /\ pc = "parse"
    /\ pp_out' = password_parts(pp_input)
    /\ pc' = "parsed"
    /\ UNCHANGED <<pp_words, pp_digit, pp_char, pp_input>>
    /\ UNCHANGED <<args, min_length, max_length, min_word, special_set, sample_size,
                   generated, password, passed, success_size, entropy, hist, picked,
                   stdout, stderr, ret, exc>>
    /\ UNCHANGED <<genVars, aloneVars, weVars>>

PartsNext == PartsCompose \/ PartsParse

SpecParts == PartsInit /\ [][PartsNext]_vars

\* one or more capitalized-word segments, then zero or one digit, then zero
\* or one character that is no letter and no digit
Shape(s) ==
    \E n \in 1..Len(s), d \in 0..1, c \in 0..1 :
        /\ n + d + c = Len(s)
        /\ IsUpper(s[1])
        /\ \A i \in 1..n : IsUpper(s[i]) \/ IsLower(s[i])
        /\ d = 1 => IsDigit(s[n + 1])
        /\ c = 1 => ~IsAlnum(s[Len(s)])

\* C5: password_parts gives back the words, the numeral and the special
\* character a password was composed of, and raises on every string that
\* is not of the shape words, digit or none, special character or none.
C5_RoundTrip ==
    pc = "parsed" =>
        /\ pp_words # <<>> =>
              pp_out = [raised |-> FALSE, word_parts |-> pp_words,
                        number_part |-> pp_digit, char_part |-> pp_char]
        /\ ~Shape(pp_input) => pp_out.raised

----------------------------------------------------------------------------
(* wordset_entropy on its own *)

EntropyInit ==
    /\ pc = "entropy"
    /\ we_n \in 0..MaxSetSize
    /\ we_k \in 1..MaxCount
    /\ we_out = NoBits
    /\ word_set = <<>> /\ word_count = 0 /\ seen = {} /\ stem = <<>>
    /\ MainIdle /\ AloneIdle /\ PartsIdle

\* lines 115-122
EntropyEval ==
    /\ pc = "entropy"
    /\ we_out' = IF wordset_entropy_raises(we_n, we_k)
                 THEN [raised |-> TRUE, bits |-> 0]
                 ELSE [raised |-> FALSE, bits |-> wordset_entropy(we_n, we_k)]
    /\ pc' = "evaluated"
    /\ UNCHANGED <<we_n, we_k>>
    /\ UNCHANGED <<args, min_length, max_length, min_word, special_set, sample_size,
                   generated, password, passed, success_size, entropy, hist, picked,
                   stdout, stderr, ret, exc>>
    /\ UNCHANGED <<genVars, aloneVars, ppVars>>

EntropyNext == EntropyEval

SpecEntropy == EntropyInit /\ [][EntropyNext]_vars

\* C8: where it is defined, wordset_entropy(N, k) is strictly below
\* wordset_entropy(N, k2) for every larger word count k2 < N, and strictly
\* below wordset_entropy(N2, k) for every larger set size N2 (as 2^entropy,
\* the product of the N - n).
C8_Monotone ==
    (pc = "evaluated" /\ ~we_out.raised) =>
        /\ \A k2 \in 1..(MaxCount + 1) :
              (k2 > we_k /\ we_n > k2) => wordset_entropy(we_n, k2) > we_out.bits
        /\ \A n2 \in 0..(MaxSetSize + 1) :
              n2 > we_n => wordset_entropy(n2, we_k) > we_out.bits

\* C8 witness: an entropy with a larger word count below N to compare with
C8_Witness ==
    /\ pc = "evaluated"
    /\ ~we_out.raised
    /\ we_k + 1 < we_n
    /\ we_k >= 2

====
